---- MODULE Spec2Model ----
(***************************************************************************)
(* Model of paddleocrServer.py: the batch OCR endpoint run_ocr and the     *)
(* normalisation helpers _coerce_iterable, _extract_list_field and         *)
(* _extract_rec_texts.                                                     *)
(*                                                                         *)
(* Python values are modelled as records.  A call either returns a value   *)
(* or raises: a result is [exc |-> "none", val |-> v] or                   *)
(* [exc |-> <exception class>, val |-> <<>>].                              *)
(***************************************************************************)
EXTENDS Integers, Sequences, FiniteSets, TLC

VARIABLES
    pc,            \* run_ocr: position of the request in the handler
    request,       \* run_ocr: the JSON body received
    urls,          \* run_ocr: local `urls` after line 106
    predictions,   \* run_ocr: local `predictions`
    predictCalls,  \* number of calls made to ocr.predict
    extractCalls,  \* number of results handed to _extract_rec_texts
    raised,        \* TRUE once ocr.predict raised
    response,      \* run_ocr: the HTTP response, status 0 while none
    value,         \* argument of _coerce_iterable
    field_name,    \* argument of _extract_list_field
    prediction,    \* argument of _extract_list_field / _extract_rec_texts
    out,           \* result of the helper under study
    outs           \* results of _extract_list_field per result shape

serverVars == <<pc, request, urls, predictions, predictCalls, extractCalls,
                raised, response>>
helperVars == <<value, field_name, prediction, out, outs>>
vars == <<pc, request, urls, predictions, predictCalls, extractCalls,
          raised, response, value, field_name, prediction, out, outs>>

----------------------------------------------------------------------------
(* Bounds *)

MaxLen == 3        \* longest field value drawn for _coerce_iterable
MaxTexts == 3      \* longest raw rec_texts drawn for _extract_rec_texts
MaxAngles == 3     \* longest textline_orientation_angles drawn
MaxUrls == 3       \* longest requested urls array
MaxPred == 3       \* longest list the engine returns
FloatMax == 1000   \* stands for sys.float_info.max (scaled down)

SeqsUpTo(S, n) == UNION {[1..k -> S] : k \in 0..n}

----------------------------------------------------------------------------
(* Python results *)

Ret(v) == [exc |-> "none", val |-> v]
Raise(e) == [exc |-> e, val |-> <<>>]
Pending == [exc |-> "pending", val |-> <<>>]

----------------------------------------------------------------------------
(* Elements of a field value: Python str, int, None or a nested list *)

StrE(s) == [ty |-> "str", n |-> 0, s |-> s]
IntE(n) == [ty |-> "int", n |-> n, s |-> ""]
NoneE == [ty |-> "none", n |-> 0, s |-> ""]
ListE == [ty |-> "list", n |-> 0, s |-> ""]
HugeE == IntE(FloatMax * 10)

\* isinstance(text, str)
IsStr(e) == e.ty = "str"

\* float(s) for a str argument: numeric literals parse, the rest raise
ParseFloat(s) ==
    CASE s = "1.0" -> Ret(1)
      [] s = "1" -> Ret(1)
      [] s = "0" -> Ret(0)
      [] s = "180" -> Ret(180)
      [] OTHER -> Raise("ValueError")

Abs(n) == IF n < 0 THEN -n ELSE n

\* the builtin float(angle)
Float(e) ==
    CASE e.ty = "int" -> IF Abs(e.n) > FloatMax THEN Raise("OverflowError")
                         ELSE Ret(e.n)
      [] e.ty = "str" -> ParseFloat(e.s)
      [] OTHER -> Raise("TypeError")

----------------------------------------------------------------------------
(* Field values.  kind: "none" (None), "list", "tuple", "iter" (another    *)
(* iterable: numpy array, generator, ...), "dict" (iterates its keys),     *)
(* "scalar" (not iterable).  fail: the exception iteration raises, or      *)
(* "none".  "absent" marks a missing value.                                *)

Val(k, items, fail) == [kind |-> k, items |-> items, fail |-> fail]
NoneV == Val("none", <<>>, "none")
ScalarV == Val("scalar", <<>>, "none")
AbsentV == Val("absent", <<>>, "none")
ListV(items) == Val("list", items, "none")

\* the builtin list(value)
PyList(v) ==
    CASE v.kind \in {"list", "tuple"} -> Ret(v.items)
      [] v.kind \in {"iter", "dict"} ->
            IF v.fail = "none" THEN Ret(v.items) ELSE Raise(v.fail)
      [] OTHER -> Raise("TypeError")

_coerce_iterable(v) ==
    IF v.kind = "none" THEN Ret(<<>>)
    ELSE IF v.kind = "list" THEN Ret(v.items)
    ELSE IF v.kind = "tuple" THEN Ret(v.items)
    ELSE IF PyList(v).exc = "TypeError" THEN Ret(<<>>) ELSE PyList(v)

----------------------------------------------------------------------------
(* Mappings (Python dict): a sequence of entries in insertion order, keys  *)
(* distinct.                                                               *)

Entry(k, v) == [key |-> k, value |-> v]
Keys(m) == {m[i].key : i \in 1..Len(m)}
Get(m, k) == m[CHOOSE i \in 1..Len(m) : m[i].key = k].value
EmptyMap == <<>>

\* list(dict): the keys, in insertion order
DictV(m) == Val("dict", [i \in 1..Len(m) |-> StrE(m[i].key)], "none")

(* A slot that an object may expose under a reserved attribute name        *)
(* (json_res, __dict__): missing, a dict, or some other value.             *)
NoSlot == [kind |-> "absent", map |-> EmptyMap, value |-> AbsentV]
DictSlot(m) == [kind |-> "dict", map |-> m, value |-> AbsentV]
ValueSlot(v) == [kind |-> "value", map |-> EmptyMap, value |-> v]
SlotValue(s) == IF s.kind = "dict" THEN DictV(s.map) ELSE s.value

(* A recognition result.  isNone: the result is None.  isDict:             *)
(* isinstance(prediction, dict), items its entries.  attrs: the named      *)
(* attributes the object exposes, other than json_res and __dict__, which  *)
(* are the slots json_res and store.                                       *)
Pred(isNone, isDict, items, attrs, json_res, store) ==
    [isNone |-> isNone, isDict |-> isDict, items |-> items, attrs |-> attrs,
     json_res |-> json_res, store |-> store]
NoneP == Pred(TRUE, FALSE, EmptyMap, EmptyMap, NoSlot, NoSlot)
BareP == Pred(FALSE, FALSE, EmptyMap, EmptyMap, NoSlot, NoSlot)

\* hasattr(prediction, name)
HasAttr(p, name) ==
    \/ name \in Keys(p.attrs)
    \/ name = "json_res" /\ p.json_res.kind # "absent"
    \/ name = "__dict__" /\ p.store.kind # "absent"

\* getattr(prediction, name), for a name with HasAttr(p, name)
GetAttr(p, name) ==
    IF name \in Keys(p.attrs) THEN Get(p.attrs, name)
    ELSE IF name = "json_res" THEN SlotValue(p.json_res)
    ELSE SlotValue(p.store)

\* the mapping probe of line 48 moved behind the attribute probe
_extract_list_field_attr_first(p, name) ==
    IF p.isNone THEN Ret(<<>>)
    ELSE IF HasAttr(p, name)
        THEN _coerce_iterable(GetAttr(p, name))
    ELSE IF p.isDict /\ name \in Keys(p.items)
        THEN _coerce_iterable(Get(p.items, name))
    ELSE IF p.json_res.kind = "dict" /\ name \in Keys(p.json_res.map)
        THEN _coerce_iterable(Get(p.json_res.map, name))
    ELSE IF p.store.kind = "dict" /\ name \in Keys(p.store.map)
        THEN _coerce_iterable(Get(p.store.map, name))
    ELSE Ret(<<>>)

\* the __dict__ probe of lines 58-60 left out
_extract_list_field_no_store(p, name) ==
    IF p.isNone THEN Ret(<<>>)
    ELSE IF p.isDict /\ name \in Keys(p.items)
        THEN _coerce_iterable(Get(p.items, name))
    ELSE IF HasAttr(p, name)
        THEN _coerce_iterable(GetAttr(p, name))
    ELSE IF p.json_res.kind = "dict" /\ name \in Keys(p.json_res.map)
        THEN _coerce_iterable(Get(p.json_res.map, name))
    ELSE Ret(<<>>)

_extract_list_field(p, name) ==
    IF p.isNone THEN Ret(<<>>)
    ELSE IF p.isDict /\ name \in Keys(p.items)
        THEN _coerce_iterable(Get(p.items, name))
    ELSE IF HasAttr(p, name)
        THEN _coerce_iterable(GetAttr(p, name))
    ELSE IF p.json_res.kind = "dict" /\ name \in Keys(p.json_res.map)
        THEN _coerce_iterable(Get(p.json_res.map, name))
    ELSE IF p.store.kind = "dict" /\ name \in Keys(p.store.map)
        THEN _coerce_iterable(Get(p.store.map, name))
    ELSE Ret(<<>>)

----------------------------------------------------------------------------
(* _extract_rec_texts *)

\* lines 82-86: angle_value of the text at index idx; isNone when it is None
AngleValue(angles, idx) ==
    IF idx <= Len(angles) /\ angles[idx].ty # "none"
    THEN IF Float(angles[idx]).exc \in {"TypeError", "ValueError"}
         THEN [exc |-> "none", isNone |-> TRUE, val |-> 0]
         ELSE [exc |-> Float(angles[idx]).exc, isNone |-> FALSE,
               val |-> Float(angles[idx]).val]
    ELSE [exc |-> "none", isNone |-> TRUE, val |-> 0]

\* lines 80-93: the loop, entered at index idx with `filtered` so far
RECURSIVE FilterLoop(_, _, _, _)
FilterLoop(rec_texts, angles, idx, filtered) ==
    IF idx > Len(rec_texts) THEN Ret(filtered)
    ELSE LET a == AngleValue(angles, idx) IN
         IF a.exc # "none" THEN Raise(a.exc)
         ELSE IF ~a.isNone /\ a.val = 1
              THEN FilterLoop(rec_texts, angles, idx + 1, filtered)
              ELSE FilterLoop(rec_texts, angles, idx + 1,
                              Append(filtered, rec_texts[idx]))

_extract_rec_texts(p) ==
    LET raw == _extract_list_field(p, "rec_texts") IN
    IF raw.exc # "none" THEN raw
    ELSE LET rec_texts == SelectSeq(raw.val, IsStr) IN
         IF rec_texts = <<>> THEN Ret(<<>>)
         ELSE LET angles == _extract_list_field(p, "textline_orientation_angles") IN
              IF angles.exc # "none" THEN angles
              ELSE IF angles.val = <<>> THEN Ret(rec_texts)
              ELSE FilterLoop(rec_texts, angles.val, 1, <<>>)

----------------------------------------------------------------------------
(* run_ocr: the request *)

\* an entry of the JSON array `urls`: a string or a number
UrlS(chars) == [ty |-> "str", n |-> 0, chars |-> chars]
UrlI(n) == [ty |-> "int", n |-> n, chars |-> <<>>]

Digits == <<"0", "1", "2", "3", "4", "5", "6", "7", "8", "9">>

\* str(url)
Str(u) == IF u.ty = "str" THEN u.chars ELSE <<Digits[u.n + 1]>>

Whitespace == {" ", "\t", "\n"}

RECURSIVE LStrip(_)
LStrip(cs) ==
    IF cs # <<>> /\ Head(cs) \in Whitespace THEN LStrip(Tail(cs)) ELSE cs

RECURSIVE RStrip(_)
RStrip(cs) ==
    IF cs # <<>> /\ cs[Len(cs)] \in Whitespace
    THEN RStrip(SubSeq(cs, 1, Len(cs) - 1)) ELSE cs

\* str.strip()
Strip(cs) == RStrip(LStrip(cs))

\* line 106: [str(url).strip() for url in urls if str(url).strip()]
RECURSIVE CleanUrls(_)
CleanUrls(us) ==
    IF us = <<>> THEN <<>>
    ELSE IF Strip(Str(Head(us))) # <<>>
         THEN <<Strip(Str(Head(us)))>> \o CleanUrls(Tail(us))
         ELSE CleanUrls(Tail(us))

(* A request body.  body: "none" (no JSON, or a falsy JSON value),         *)
(* "object" (a JSON object), "other" (a truthy JSON value that is not an   *)
(* object).  hasUrls, isList and urls describe the member `urls`.          *)
Req(body, hasUrls, isList, us) ==
    [body |-> body, hasUrls |-> hasUrls, isList |-> isList, urls |-> us]

Resp(status, body) == [status |-> status, body |-> body]
NoResp == Resp(0, <<>>)

\* lines 98-108; next = "predict" when the request reaches line 110
ValidateRequest(req) ==
    IF req.body = "other"
        \* payload.get raises AttributeError: unhandled, Flask answers 500
        THEN [next |-> "done", urls |-> <<>>, response |-> Resp(500, <<>>)]
    ELSE IF req.body = "object" /\ req.hasUrls /\ ~req.isList
        THEN [next |-> "done", urls |-> <<>>, response |-> Resp(400, <<>>)]
    ELSE LET us == IF req.body = "object" /\ req.hasUrls
                   THEN CleanUrls(req.urls) ELSE <<>> IN
         IF us = <<>>
         THEN [next |-> "done", urls |-> <<>>, response |-> Resp(400, <<>>)]
         ELSE [next |-> "predict", urls |-> us, response |-> NoResp]

\* lines 126-131: the loop over zip(urls, predictions) from pair i on; an
\* exception out of _extract_rec_texts is unhandled and Flask answers 500
RECURSIVE BuildRecords(_, _, _, _)
BuildRecords(us, ps, i, acc) ==
    IF i > Len(us) \/ i > Len(ps)
    THEN [response |-> Resp(200, acc), calls |-> i - 1]
    ELSE LET r == _extract_rec_texts(ps[i]) IN
         IF r.exc # "none"
         THEN [response |-> Resp(500, <<>>), calls |-> i]
         ELSE BuildRecords(us, ps, i + 1,
                 Append(acc, [input_path |-> us[i], rec_texts |-> r.val]))

\* the length check of lines 120-124 left out
BuildResponse_no_check(us, ps) == BuildRecords(us, ps, 1, <<>>)

\* lines 120-131
BuildResponse(us, ps) ==
    IF Len(ps) # Len(us)
    THEN [response |-> Resp(500, <<>>), calls |-> 0]
    ELSE BuildRecords(us, ps, 1, <<>>)

----------------------------------------------------------------------------
(* Inputs *)

CoerceElems == {StrE("a"), IntE(1), NoneE}

CoerceValues ==
    {NoneV, ScalarV}
    \cup {Val(k, items, "none") :
            k \in {"list", "tuple", "iter"}, items \in SeqsUpTo(CoerceElems, MaxLen)}
    \cup {Val("iter", items, f) :
            items \in SeqsUpTo(CoerceElems, MaxLen), f \in {"TypeError", "RuntimeError"}}

FieldNames == {"rec_texts", "textline_orientation_angles", "json_res", "__dict__"}

Shapes == {"mapping", "attribute", "json_res", "__dict__"}

\* a result of shape sh holding value v under field name
OfShape(sh, name, v) ==
    CASE sh = "mapping" ->
            Pred(FALSE, TRUE, <<Entry(name, v)>>, EmptyMap, NoSlot, NoSlot)
      [] sh = "attribute" ->
            IF name = "json_res"
            THEN Pred(FALSE, FALSE, EmptyMap, EmptyMap, ValueSlot(v), NoSlot)
            ELSE IF name = "__dict__"
            THEN Pred(FALSE, FALSE, EmptyMap, EmptyMap, NoSlot, ValueSlot(v))
            ELSE Pred(FALSE, FALSE, EmptyMap, <<Entry(name, v)>>, NoSlot, NoSlot)
      [] sh = "json_res" ->
            Pred(FALSE, FALSE, EmptyMap, EmptyMap,
                 DictSlot(<<Entry(name, v)>>), NoSlot)
      [] OTHER ->
            Pred(FALSE, FALSE, EmptyMap, EmptyMap, NoSlot,
                 DictSlot(<<Entry(name, v)>>))

\* results in which several probes may match at once
ValA == ListV(<<StrE("a")>>)
ValB == ListV(<<StrE("b")>>)

ProbeMaps ==
    {<<>>, <<Entry("textline_orientation_angles", ValA)>>}
    \cup {<<Entry("rec_texts", v)>> : v \in {ValA, ValB, ScalarV}}
    \cup {<<Entry("rec_texts", v), Entry("textline_orientation_angles", ValA)>> :
            v \in {ValA, ValB, ScalarV}}

ProbeSlots == {NoSlot, ValueSlot(ScalarV)} \cup {DictSlot(m) : m \in ProbeMaps}

ProbePredictions ==
    {NoneP}
    \cup {Pred(FALSE, d, IF d THEN items ELSE EmptyMap, attrs, j, st) :
            d \in BOOLEAN, items \in ProbeMaps, attrs \in ProbeMaps,
            j \in ProbeSlots, st \in ProbeSlots}

\* results for _extract_rec_texts
TextElems == {StrE("a"), StrE("b"), IntE(7)}
AngleElems == {IntE(0), IntE(1), StrE("1.0"), StrE("x"), NoneE, HugeE}

TextPredictions ==
    {OfShape(sh, "rec_texts", ListV(t)) :
        sh \in {"mapping", "attribute"}, t \in SeqsUpTo(TextElems, MaxTexts)}
    \cup {Pred(FALSE, TRUE,
               <<Entry("rec_texts", ListV(t)),
                 Entry("textline_orientation_angles", ListV(a))>>,
               EmptyMap, NoSlot, NoSlot) :
            t \in SeqsUpTo(TextElems, MaxTexts),
            a \in SeqsUpTo(AngleElems, MaxAngles)}

\* the request bodies and engine results drawn for run_ocr
UrlEntries ==
    {UrlS(<<"a">>), UrlS(<<" ", "b", " ">>), UrlS(<<" ">>), UrlI(7)}

Requests ==
    {Req("none", FALSE, FALSE, <<>>), Req("other", FALSE, FALSE, <<>>),
     Req("object", FALSE, FALSE, <<>>), Req("object", TRUE, FALSE, <<>>)}
    \cup {Req("object", TRUE, TRUE, us) : us \in SeqsUpTo(UrlEntries, MaxUrls)}

EnginePredictions ==
    {Pred(FALSE, TRUE,
          <<Entry("rec_texts", ListV(<<StrE("a"), StrE("b")>>)),
            Entry("textline_orientation_angles", ListV(<<IntE(0), IntE(1)>>))>>,
          EmptyMap, NoSlot, NoSlot),
     BareP,
     OfShape("attribute", "rec_texts",
             Val("iter", <<StrE("a")>>, "RuntimeError")),
     Pred(FALSE, TRUE,
          <<Entry("rec_texts", ListV(<<StrE("a")>>)),
            Entry("textline_orientation_angles", ListV(<<HugeE>>))>>,
          EmptyMap, NoSlot, NoSlot)}

----------------------------------------------------------------------------
(* Specifications *)

NoOuts == [sh \in {} |-> Pending]

ServerOff ==
    /\ pc = "off"
    /\ request = Req("none", FALSE, FALSE, <<>>)
    /\ urls = <<>>
    /\ predictions = <<>>
    /\ predictCalls = 0
    /\ extractCalls = 0
    /\ raised = FALSE
    /\ response = NoResp

(* run_ocr, one request *)

Init ==
    /\ pc = "recv"
    /\ request \in Requests
    /\ urls = <<>>
    /\ predictions = <<>>
    /\ predictCalls = 0
    /\ extractCalls = 0
    /\ raised = FALSE
    /\ response = NoResp
    /\ value = AbsentV
    /\ field_name = ""
    /\ prediction = NoneP
    /\ out = Pending
    /\ outs = NoOuts

\* lines 98-108
Validate ==
    /\ pc = "recv"
    /\ pc' = ValidateRequest(request).next
    /\ urls' = ValidateRequest(request).urls
    /\ response' = ValidateRequest(request).response
    /\ UNCHANGED <<request, predictions, predictCalls, extractCalls, raised>>
    /\ UNCHANGED helperVars

\* line 111: ocr.predict returns
PredictReturns ==
    /\ pc = "predict"
    /\ \E ps \in SeqsUpTo(EnginePredictions, MaxPred) : predictions' = ps
    /\ predictCalls' = predictCalls + 1
    /\ pc' = "respond"
    /\ UNCHANGED <<request, urls, extractCalls, raised, response>>
    /\ UNCHANGED helperVars

\* the except clause calling predict again instead of answering
PredictRaises_retry ==
    /\ pc = "predict"
    /\ predictCalls < 2
    /\ predictCalls' = predictCalls + 1
    /\ raised' = TRUE
    /\ pc' = "predict"
    /\ UNCHANGED <<request, urls, predictions, extractCalls, response>>
    /\ UNCHANGED helperVars

\* lines 111, 116-118: ocr.predict raises an Exception
PredictRaises ==
    /\ pc = "predict"
    /\ predictCalls' = predictCalls + 1
    /\ raised' = TRUE
    /\ response' = Resp(500, <<>>)
    /\ pc' = "done"
    /\ UNCHANGED <<request, urls, predictions, extractCalls>>
    /\ UNCHANGED helperVars

\* lines 120-131
Respond ==
    /\ pc = "respond"
    /\ response' = BuildResponse(urls, predictions).response
    /\ extractCalls' = extractCalls + BuildResponse(urls, predictions).calls
    /\ pc' = "done"
    /\ UNCHANGED <<request, urls, predictions, predictCalls, raised>>
    /\ UNCHANGED helperVars

Next == Validate \/ PredictReturns \/ PredictRaises \/ Respond

Spec == Init /\ [][Next]_vars

(* _coerce_iterable applied to one value *)

InitCoerce ==
    /\ ServerOff
    /\ value \in CoerceValues
    /\ field_name = ""
    /\ prediction = NoneP
    /\ out = Pending
    /\ outs = NoOuts

Coerce ==
    /\ out = Pending
    /\ out' = _coerce_iterable(value)
    /\ UNCHANGED <<value, field_name, prediction, outs>>
    /\ UNCHANGED serverVars

NextCoerce == Coerce

SpecCoerce == InitCoerce /\ [][NextCoerce]_vars

(* _extract_list_field applied to one value held in each of the shapes *)

InitShapes ==
    /\ ServerOff
    /\ value \in CoerceValues
    /\ field_name \in FieldNames
    /\ prediction = NoneP
    /\ out = Pending
    /\ outs = NoOuts

ExtractShape(sh) ==
    /\ sh \notin DOMAIN outs
    /\ outs' = (sh :> _extract_list_field(OfShape(sh, field_name, value), field_name))
                @@ outs
    /\ UNCHANGED <<value, field_name, prediction, out>>
    /\ UNCHANGED serverVars

NextShapes == \E sh \in Shapes : ExtractShape(sh)

SpecShapes == InitShapes /\ [][NextShapes]_vars

(* _extract_list_field applied to one result *)

InitField ==
    /\ ServerOff
    /\ value = AbsentV
    /\ field_name \in FieldNames
    /\ prediction \in ProbePredictions
    /\ out = Pending
    /\ outs = NoOuts

ExtractListField ==
    /\ out = Pending
    /\ out' = _extract_list_field(prediction, field_name)
    /\ UNCHANGED <<value, field_name, prediction, outs>>
    /\ UNCHANGED serverVars

NextField == ExtractListField

SpecField == InitField /\ [][NextField]_vars

(* _extract_rec_texts applied to one result *)

InitTexts ==
    /\ ServerOff
    /\ value = AbsentV
    /\ field_name = ""
    /\ prediction \in TextPredictions
    /\ out = Pending
    /\ outs = NoOuts

ExtractRecTexts ==
    /\ out = Pending
    /\ out' = _extract_rec_texts(prediction)
    /\ UNCHANGED <<value, field_name, prediction, outs>>
    /\ UNCHANGED serverVars

NextTexts == ExtractRecTexts

SpecTexts == InitTexts /\ [][NextTexts]_vars

----------------------------------------------------------------------------
(* Properties of run_ocr (Spec) *)

\* the engine returned, with these many results
Returned == predictCalls = 1 /\ ~raised /\ pc \in {"respond", "done"}

\* C1: a success response has one record per entry of the requested urls
\* array, the i-th record's input_path being the trimmed i-th entry.
C1_RecordsMatchRequest ==
    response.status = 200 =>
        /\ Len(response.body) = Len(request.urls)
        /\ \A i \in 1..Len(response.body) :
              response.body[i].input_path = Strip(Str(request.urls[i]))

\* urls is a non-empty array of strings that are non-blank after trimming
WellFormed(req) ==
    /\ req.body = "object" /\ req.hasUrls /\ req.isList
    /\ req.urls # <<>>
    /\ \A i \in 1..Len(req.urls) :
          req.urls[i].ty = "str" /\ Strip(req.urls[i].chars) # <<>>

\* C2: a request whose urls is not a non-empty array of non-blank strings
\* is answered 400 and predict is never invoked for it (stated for bodies
\* that are a JSON object or carry no JSON; any other body ends in the
\* unhandled AttributeError of line 99).
C2_MalformedRejected ==
    (request.body # "other" /\ ~WellFormed(request)) =>
        /\ predictCalls = 0
        /\ pc = "done" => response.status = 400

\* C3: when the engine returns a number of results different from the
\* number of inputs, the answer is 500, no record is produced and no
\* result is handed to _extract_rec_texts.
C3_MismatchFails ==
    (Returned /\ Len(predictions) # Len(urls)) =>
        /\ extractCalls = 0
        /\ response.body = <<>>
        /\ pc = "done" => response.status = 500

C3_Witness ==
    /\ Returned /\ pc = "done"
    /\ Len(urls) = 3 /\ Len(predictions) = 2
    /\ response.status = 500

\* C4: predict is invoked at most once per request; once it raised, the
\* request is over with a 500 response without records, predict is not
\* invoked again and no result is consumed.
C4_NoRetryNoPartial ==
    /\ predictCalls <= 1
    /\ raised =>
          /\ predictCalls = 1
          /\ pc = "done"
          /\ response = Resp(500, <<>>)
          /\ predictions = <<>>
          /\ extractCalls = 0

C4_Witness ==
    raised /\ pc = "done" /\ Len(urls) = 2 /\ response.status = 500

\* C5: once the engine returned as many results as inputs, the answer is
\* a success with one record per input, whatever the results hold.
C5_AlwaysSucceeds ==
    (Returned /\ pc = "done" /\ Len(predictions) = Len(urls)) =>
        /\ response.status = 200
        /\ Len(response.body) = Len(urls)

----------------------------------------------------------------------------
(* Properties of _coerce_iterable (SpecCoerce) *)

\* C6: _coerce_iterable never raises; None gives [], a list or tuple its
\* elements in order, another iterable its elements in iteration order,
\* a non-iterable or a failing iteration []; coercing the coerced list
\* gives the same list.
C6_CoerceTotal ==
    out # Pending =>
        /\ out.exc = "none"
        /\ out.val = IF value.kind \in {"list", "tuple"} THEN value.items
                      ELSE IF value.kind = "iter" /\ value.fail = "none"
                           THEN value.items
                      ELSE <<>>
        /\ _coerce_iterable(ListV(out.val)) = out

----------------------------------------------------------------------------
(* Properties of _extract_list_field (SpecShapes, SpecField) *)

\* C7: whichever of the four shapes holds the value under the field name,
\* _extract_list_field gives the same outcome.
C7_SameAcrossShapes ==
    \A s1 \in DOMAIN outs : \A s2 \in DOMAIN outs : outs[s1] = outs[s2]

\* C7, amended: the same, for field names other than the attribute names
\* json_res and __dict__ that the result object itself exposes.
C7_SameAcrossShapesAmended ==
    field_name \notin {"json_res", "__dict__"} =>
        \A s1 \in DOMAIN outs : \A s2 \in DOMAIN outs : outs[s1] = outs[s2]

C7_Witness ==
    /\ DOMAIN outs = Shapes
    /\ field_name = "rec_texts"
    /\ value.kind = "iter"
    /\ Len(outs["__dict__"].val) = 2

\* the four probes of lines 48-60, in order: whether each matches, and the
\* value it finds
Probes(p, name) ==
    << [hit |-> p.isDict /\ name \in Keys(p.items),
        value |-> IF p.isDict /\ name \in Keys(p.items)
                  THEN Get(p.items, name) ELSE AbsentV],
       [hit |-> HasAttr(p, name),
        value |-> IF HasAttr(p, name) THEN GetAttr(p, name) ELSE AbsentV],
       [hit |-> p.json_res.kind = "dict" /\ name \in Keys(p.json_res.map),
        value |-> IF p.json_res.kind = "dict" /\ name \in Keys(p.json_res.map)
                  THEN Get(p.json_res.map, name) ELSE AbsentV],
       [hit |-> p.store.kind = "dict" /\ name \in Keys(p.store.map),
        value |-> IF p.store.kind = "dict" /\ name \in Keys(p.store.map)
                  THEN Get(p.store.map, name) ELSE AbsentV] >>

FirstHit(h) ==
    IF \E k \in 1..Len(h) : h[k].hit
    THEN CHOOSE k \in 1..Len(h) :
            h[k].hit /\ \A j \in 1..(k - 1) : ~h[j].hit
    ELSE 0

\* C9: the outcome is the coercion of the value found by the first
\* matching probe in the order mapping key, attribute, json_res, __dict__,
\* whatever later probes hold, and [] for None or when no probe matches.
C9_FirstMatchWins ==
    out # Pending =>
        LET h == Probes(prediction, field_name) IN
        IF prediction.isNone \/ FirstHit(h) = 0
        THEN out = Ret(<<>>)
        ELSE out = _coerce_iterable(h[FirstHit(h)].value)

C9_Witness ==
    /\ out = Ret(<<>>)
    /\ field_name = "rec_texts"
    /\ Probes(prediction, field_name)[1].hit
    /\ Probes(prediction, field_name)[1].value = ScalarV
    /\ Probes(prediction, field_name)[2].hit
    /\ Probes(prediction, field_name)[2].value = ValA
    /\ Probes(prediction, field_name)[3].hit
    /\ Probes(prediction, field_name)[4].hit

----------------------------------------------------------------------------
(* Properties of _extract_rec_texts (SpecTexts) *)

\* the angle parses to a number equal to 1.0
IsOne(e) == Float(e).exc = "none" /\ Float(e).val = 1

\* the entries of seq at the indices in S, in increasing index order
RECURSIVE Pick(_, _, _)
Pick(seq, S, i) ==
    IF i > Len(seq) THEN <<>>
    ELSE IF i \in S THEN <<seq[i]>> \o Pick(seq, S, i + 1)
    ELSE Pick(seq, S, i + 1)

RawTexts == _extract_list_field(prediction, "rec_texts").val
Angles == _extract_list_field(prediction, "textline_orientation_angles").val

\* C8: the result is the texts[i], in increasing i, for which it is not
\* the case that i < len(angles) and angles[i] parses to 1.0, texts being
\* the string entries of the extracted rec_texts.
C8_FilterByAngle ==
    out # Pending =>
        LET texts == SelectSeq(RawTexts, IsStr) IN
        out = Ret(Pick(texts,
                       {i \in 1..Len(texts) :
                           ~(i <= Len(Angles) /\ IsOne(Angles[i]))}, 1))

\* C10: a string at raw position p of rec_texts is excluded exactly when
\* the angle at position p equals 1.0.
C10_AngleAtRawPosition ==
    (out # Pending /\ out.exc = "none") =>
        out.val = Pick(RawTexts,
                       {p \in 1..Len(RawTexts) :
                           /\ IsStr(RawTexts[p])
                           /\ ~(p <= Len(Angles) /\ IsOne(Angles[p]))}, 1)

====
